---- MODULE Spec2Model ----
(***************************************************************************)
(* The layout component of src/layouts/index.js (the Page Composer) and    *)
(* the site metadata of gatsby-config.js.                                  *)
(*                                                                         *)
(* The layout is the arrow function                                        *)
(*     ({ children, data }) => <Body> <Helmet title=... meta=...>          *)
(*         <style/> </Helmet> <Header/> <Container>{children()}</Container> *)
(*       </Body>                                                           *)
(* JSX compiles to nested createElement calls whose arguments JavaScript   *)
(* evaluates left to right: the Helmet element (which reads                *)
(* data.site.siteMetadata.title), then the Header element, then the        *)
(* Container element (which calls children()), then the Body element.      *)
(* Each of these evaluations is one action of a page's composition, so     *)
(* that compositions of several pages interleave.                          *)
(*                                                                         *)
(* JavaScript values are records tagged by a "type" field.                 *)
(***************************************************************************)
EXTENDS Naturals, FiniteSets, Sequences, TLC

\* Number of pages the build composes.
NumPages == 2
\* How many times a page may be composed again (a rebuild of that page).
MaxRenders == 2

Pages == 1..NumPages

VARIABLES
  siteMetadata,  \* gatsby-config.js: module.exports.siteMetadata
  data,          \* the data prop: the result of LayoutQuery
  pages,         \* pages[p]: the children prop of page p
  pc,            \* pc[p]: which element of the layout is evaluated next
  helmet,        \* helmet[p]: the evaluated <Helmet> element
  header,        \* header[p]: the evaluated <Header /> element
  container,     \* container[p]: the evaluated <Container> element
  calls,         \* calls[p]: invocations of children() in this composition
  renders,       \* renders[p]: compositions of page p started so far
  out,           \* out[p]: what the composition returned or threw
  log            \* every (children, outcome) pair produced so far

vars == <<siteMetadata, data, pages, pc, helmet, header, container, calls,
          renders, out, log>>

----------------------------------------------------------------------------
\* JavaScript values

Undefined == [type |-> "undefined"]
Null == [type |-> "null"]
Str(s) == [type |-> "string", value |-> s]
Fn(r) == [type |-> "function", returns |-> r]
Obj(props) == [type |-> "object", props |-> props]

\* o.f: undefined when o has no property f.
Get(o, f) ==
  IF o.type = "object" /\ f \in DOMAIN o.props THEN o.props[f] ELSE Undefined

\* Reading a property of undefined or null throws a TypeError.
GetThrows(o) == o.type \in {"undefined", "null"}

TypeError == [type |-> "TypeError"]
Unset == [type |-> "unset"]

----------------------------------------------------------------------------
\* gatsby-config.js

ConfiguredMetadata ==
  Obj([title |-> Str("Fahad Almusharraf - Website"),
       author |-> Str("Fahad Almusharraf")])

\* Site metadata records the layout may be built with: the configured one,
\* one that differs in author only, one that differs in title, one without a
\* title, and none at all.
SiteConfigs ==
  { ConfiguredMetadata,
    Obj([title |-> Str("Fahad Almusharraf - Website"), author |-> Str("Someone Else")]),
    Obj([title |-> Str("Another Site"), author |-> Str("Fahad Almusharraf")]),
    Obj([author |-> Str("Fahad Almusharraf")]),
    Undefined }

----------------------------------------------------------------------------
\* src/layouts/index.js

\* LayoutQuery with the selection aliased to the wrong field
\* (title: author).
LayoutQueryAuthorAlias(m) ==
  Obj([site |-> Obj([siteMetadata |-> Obj([title |-> Get(m, "author")])])])

\* LayoutQuery selects site { siteMetadata { title } } and nothing else.
LayoutQuery(m) ==
  Obj([site |-> Obj([siteMetadata |-> Obj([title |-> Get(m, "title")])])])

\* The shapes of the data prop in which the chain data.site.siteMetadata
\* breaks: data, data.site or data.site.siteMetadata is undefined.
AbsentData ==
  { Undefined,
    Obj([site |-> Undefined]),
    Obj([site |-> Obj([siteMetadata |-> Undefined])]) }

QueryResults(m) == IF m = Undefined THEN AbsentData ELSE {LayoutQuery(m)}

\* The children prop: omitted, or a function returning the page's markup
\* (an article body, an empty article body, or nothing).
ChildrenInputs ==
  { Undefined, Fn(Str("<p>Hello</p>")), Fn(Str("")), Fn(Null) }

COLORS_LIGHTEST == Str("COLORS.LIGHTEST")

\* The title read with optional chaining: it never throws.
TitleThrowsNever(d) == FALSE

\* data.site.siteMetadata.title throws when data, data.site or
\* data.site.siteMetadata is undefined.
TitleThrows(d) ==
  \/ GetThrows(d)
  \/ GetThrows(Get(d, "site"))
  \/ GetThrows(Get(Get(d, "site"), "siteMetadata"))

TitleOf(d) == Get(Get(Get(d, "site"), "siteMetadata"), "title")

MetaTags ==
  << [name |-> "description", content |-> "Personal website"],
     [name |-> "keywords", content |-> "blog, showcase, personal"] >>

StyleElement ==
  [type |-> "style", styleType |-> "text/css",
   css |-> [selector |-> "body", property |-> "background-color",
            value |-> COLORS_LIGHTEST]]

\* The Helmet element with the starter's hard-coded title.
HelmetElementStarterTitle(d) ==
  [type |-> "Helmet", title |-> Str("Gatsby Default Starter"), meta |-> MetaTags,
   children |-> StyleElement]

HelmetElement(d) ==
  [type |-> "Helmet", title |-> TitleOf(d), meta |-> MetaTags,
   children |-> StyleElement]

HeaderElement == [type |-> "Header"]

\* children() whose result is dereferenced: it also throws on empty content.
ChildrenThrowsOnEmpty(c) ==
  \/ c.type # "function"
  \/ c.returns.type = "null"
  \/ c.returns = Str("")

\* children() throws when children is not a function.
ChildrenThrows(c) == c.type # "function"

\* The Container element rendered without its children.
ContainerElementEmpty(c) == [type |-> "Container", children |-> Null]

ContainerElement(c) == [type |-> "Container", children |-> c.returns]

BodyElement(h, hd, c) == [type |-> "Body", children |-> <<h, hd, c>>]

\* The layout as one call: what it returns or throws for these props.
Layout(c, d) ==
  IF TitleThrows(d) \/ ChildrenThrows(c)
  THEN TypeError
  ELSE BodyElement(HelmetElement(d), HeaderElement, ContainerElement(c))

----------------------------------------------------------------------------
Init ==
  /\ siteMetadata \in SiteConfigs
  /\ data \in QueryResults(siteMetadata)
  /\ pages \in [Pages -> ChildrenInputs]
  /\ pc = [p \in Pages |-> "helmet"]
  /\ helmet = [p \in Pages |-> Unset]
  /\ header = [p \in Pages |-> Unset]
  /\ container = [p \in Pages |-> Unset]
  /\ calls = [p \in Pages |-> 0]
  /\ renders = [p \in Pages |-> 1]
  /\ out = [p \in Pages |-> Unset]
  /\ log = {}

\* The Helmet evaluation writing the title back into the metadata
\* (an assignment where the code reads).
EvalHelmetWriting(p) ==
  /\ pc[p] = "helmet"
  /\ ~TitleThrows(data)
  /\ pc' = [pc EXCEPT ![p] = "header"]
  /\ helmet' = [helmet EXCEPT ![p] = HelmetElement(data)]
  /\ siteMetadata' = Obj([title |-> Str("")])
  /\ data' = LayoutQuery(siteMetadata')
  /\ UNCHANGED <<pages, header, container, calls, renders, out, log>>

\* The Helmet evaluation with children() hoisted in front of the title read.
EvalHelmetChildrenFirst(p) ==
  /\ pc[p] = "helmet"
  /\ calls' = [calls EXCEPT ![p] = IF ChildrenThrows(pages[p]) THEN 0 ELSE 1]
  /\ IF TitleThrows(data)
     THEN /\ pc' = [pc EXCEPT ![p] = "failed"]
          /\ out' = [out EXCEPT ![p] = TypeError]
          /\ log' = log \cup {[children |-> pages[p], out |-> TypeError]}
          /\ UNCHANGED helmet
     ELSE /\ pc' = [pc EXCEPT ![p] = "header"]
          /\ helmet' = [helmet EXCEPT ![p] = HelmetElement(data)]
          /\ UNCHANGED <<out, log>>
  /\ UNCHANGED <<siteMetadata, data, pages, header, container, renders>>

\* <Helmet title={data.site.siteMetadata.title} meta={[...]}> <style/> </Helmet>
EvalHelmet(p) ==
  /\ pc[p] = "helmet"
  /\ IF TitleThrows(data)
     THEN /\ pc' = [pc EXCEPT ![p] = "failed"]
          /\ out' = [out EXCEPT ![p] = TypeError]
          /\ log' = log \cup {[children |-> pages[p], out |-> TypeError]}
          /\ UNCHANGED helmet
     ELSE /\ pc' = [pc EXCEPT ![p] = "header"]
          /\ helmet' = [helmet EXCEPT ![p] = HelmetElement(data)]
          /\ UNCHANGED <<out, log>>
  /\ UNCHANGED <<siteMetadata, data, pages, header, container, calls, renders>>

\* <Header />
EvalHeader(p) ==
  /\ pc[p] = "header"
  /\ header' = [header EXCEPT ![p] = HeaderElement]
  /\ pc' = [pc EXCEPT ![p] = "container"]
  /\ UNCHANGED <<siteMetadata, data, pages, helmet, container, calls, renders,
                 out, log>>

\* <Container>{children()}</Container>
EvalContainer(p) ==
  /\ pc[p] = "container"
  /\ IF ChildrenThrows(pages[p])
     THEN /\ pc' = [pc EXCEPT ![p] = "failed"]
          /\ out' = [out EXCEPT ![p] = TypeError]
          /\ log' = log \cup {[children |-> pages[p], out |-> TypeError]}
          /\ UNCHANGED <<container, calls>>
     ELSE /\ pc' = [pc EXCEPT ![p] = "body"]
          /\ calls' = [calls EXCEPT ![p] = calls[p] + 1]
          /\ container' = [container EXCEPT ![p] = ContainerElement(pages[p])]
          /\ UNCHANGED <<out, log>>
  /\ UNCHANGED <<siteMetadata, data, pages, helmet, header, renders>>

\* The Body evaluation returning a container kept from the first composition
\* of the page: a later composition renders without its content.
EvalBodyStale(p) ==
  /\ pc[p] = "body"
  /\ LET c == IF renders[p] > 1 THEN ContainerElementEmpty(pages[p])
              ELSE container[p]
         doc == BodyElement(helmet[p], header[p], c)
     IN  /\ out' = [out EXCEPT ![p] = doc]
         /\ log' = log \cup {[children |-> pages[p], out |-> doc]}
  /\ pc' = [pc EXCEPT ![p] = "done"]
  /\ UNCHANGED <<siteMetadata, data, pages, helmet, header, container, calls,
                 renders>>

\* The Body evaluation writing its result to one output shared by all pages.
EvalBodyShared(p) ==
  /\ pc[p] = "body"
  /\ LET doc == BodyElement(helmet[p], header[p], container[p])
     IN  /\ out' = [q \in Pages |-> doc]
         /\ log' = log \cup {[children |-> pages[p], out |-> doc]}
  /\ pc' = [pc EXCEPT ![p] = "done"]
  /\ UNCHANGED <<siteMetadata, data, pages, helmet, header, container, calls,
                 renders>>

\* <Body> ... </Body>, the value the arrow function returns
EvalBody(p) ==
  /\ pc[p] = "body"
  /\ LET doc == BodyElement(helmet[p], header[p], container[p])
     IN  /\ out' = [out EXCEPT ![p] = doc]
         /\ log' = log \cup {[children |-> pages[p], out |-> doc]}
  /\ pc' = [pc EXCEPT ![p] = "done"]
  /\ UNCHANGED <<siteMetadata, data, pages, helmet, header, container, calls,
                 renders>>

\* The build composes page p again: a fresh call of the layout.
Rerender(p) ==
  /\ pc[p] \in {"done", "failed"}
  /\ renders[p] < MaxRenders
  /\ renders' = [renders EXCEPT ![p] = renders[p] + 1]
  /\ pc' = [pc EXCEPT ![p] = "helmet"]
  /\ helmet' = [helmet EXCEPT ![p] = Unset]
  /\ header' = [header EXCEPT ![p] = Unset]
  /\ container' = [container EXCEPT ![p] = Unset]
  /\ calls' = [calls EXCEPT ![p] = 0]
  /\ out' = [out EXCEPT ![p] = Unset]
  /\ UNCHANGED <<siteMetadata, data, pages, log>>

Next ==
  \E p \in Pages :
    \/ EvalHelmet(p)
    \/ EvalHeader(p)
    \/ EvalContainer(p)
    \/ EvalBody(p)
    \/ Rerender(p)

Spec == Init /\ [][Next]_vars

----------------------------------------------------------------------------
\* Vocabulary of the properties

\* The site metadata is valid: a record with a title.
ValidMetadata == Get(siteMetadata, "title").type = "string"

\* Page p was given page content: its children prop is a function.
Supplied(p) == pages[p].type = "function"

\* The composition of page p has ended, by returning or by throwing.
Ended(p) == pc[p] \in {"done", "failed"}

IsDocument(o) == o.type = "Body"

TitleTag(o) == o.children[1].title

ContentRegion(o) == o.children[3].children

EmptyContent(v) == v = Null \/ v = Str("")

\* The header and the global frame: the Helmet with its two fixed meta tags
\* and the body background-colour style, then the header region.
HasFrame(o) ==
  /\ IsDocument(o)
  /\ o.children[1].type = "Helmet"
  /\ o.children[1].meta =
       << [name |-> "description", content |-> "Personal website"],
          [name |-> "keywords", content |-> "blog, showcase, personal"] >>
  /\ o.children[1].children.type = "style"
  /\ o.children[1].children.css.selector = "body"
  /\ o.children[1].children.css.property = "background-color"
  /\ o.children[2] = [type |-> "Header"]
  /\ o.children[3].type = "Container"

----------------------------------------------------------------------------
\* C1: for every valid site metadata M and every supplied page content C,
\* empty content included, the composition returns a document whose title
\* tag is M.title; with the configured metadata the title tag is
\* "Fahad Almusharraf - Website".
C1_TitleTagIsSiteTitle ==
  \A p \in Pages :
    (ValidMetadata /\ Supplied(p) /\ Ended(p)) =>
      /\ IsDocument(out[p])
      /\ TitleTag(out[p]) = Get(siteMetadata, "title")
      /\ (siteMetadata = ConfiguredMetadata =>
            TitleTag(out[p]) = Str("Fahad Almusharraf - Website"))

\* The configured metadata composed with "<p>Hello</p>" and with empty content.
C1_Witness ==
  /\ siteMetadata = ConfiguredMetadata
  /\ \E p, q \in Pages :
       /\ pc[p] = "done" /\ pages[p] = Fn(Str("<p>Hello</p>"))
       /\ pc[q] = "done" /\ pages[q] = Fn(Str(""))
       /\ ContentRegion(out[p]) = Str("<p>Hello</p>")

\* C2: when the page content is omitted (no children prop), the composition
\* still succeeds and returns the header and the global frame around an empty
\* content region.
C2_OmittedContentStillRenders ==
  \A p \in Pages :
    (ValidMetadata /\ pages[p] = Undefined /\ Ended(p)) =>
      /\ HasFrame(out[p])
      /\ EmptyContent(ContentRegion(out[p]))

\* C3: when data, data.site or data.site.siteMetadata is missing, the
\* composition throws at the title read and returns no document: no element
\* is built, and no document with a missing or defaulted title comes out.
C3_AbsentMetadataFailsFast ==
  \A p \in Pages :
    data \in AbsentData =>
      /\ pc[p] \in {"helmet", "failed"}
      /\ helmet[p] = Unset /\ header[p] = Unset /\ container[p] = Unset
      /\ ~IsDocument(out[p])
      /\ (pc[p] = "failed" => out[p] = TypeError)
      /\ \A e \in log : e.out = TypeError

\* A composition with supplied content that failed for want of metadata.
C3_Witness ==
  /\ data \in AbsentData
  /\ \E p \in Pages : pc[p] = "failed" /\ Supplied(p) /\ out[p] = TypeError

\* C4: composing the same metadata and content twice, whatever was composed
\* before, gives the same outcome: all outcomes ever produced for one
\* children prop are equal, and so are those of two pages with equal content.
C4_Deterministic ==
  /\ \A e1, e2 \in log : e1.children = e2.children => e1.out = e2.out
  /\ \A p, q \in Pages :
       (Ended(p) /\ Ended(q) /\ pages[p] = pages[q]) => out[p] = out[q]
  /\ \A p \in Pages : \A e \in log :
       (Ended(p) /\ pages[p] = e.children) => out[p] = e.out

\* One page composed twice and another page with the same content composed.
C4_Witness ==
  \E p, q \in Pages :
    /\ p # q /\ pages[p] = pages[q] /\ Supplied(p) /\ ValidMetadata
    /\ renders[p] = MaxRenders /\ pc[p] = "done" /\ pc[q] = "done"

\* C5: for every valid M and every supplied C the document holds the
\* description meta tag "Personal website", the keywords meta tag
\* "blog, showcase, personal", the body background-colour style, the header
\* region, and C unchanged inside the container region.
C5_FixedFrameAndContent ==
  \A p \in Pages :
    (ValidMetadata /\ Supplied(p) /\ Ended(p)) =>
      /\ HasFrame(out[p])
      /\ ContentRegion(out[p]) = pages[p].returns

\* A metadata other than the configured one composed with "<p>Hello</p>".
C5_Witness ==
  /\ ValidMetadata /\ siteMetadata # ConfiguredMetadata
  /\ \E p \in Pages :
       /\ pc[p] = "done" /\ pages[p] = Fn(Str("<p>Hello</p>"))
       /\ HasFrame(out[p])

\* C6: composing a page whose body is empty never fails: with valid metadata
\* the composition does not throw, can always take its next step until it has
\* returned, and returns the full frame around an empty content region.
C6_EmptyBodyNeverFails ==
  \A p \in Pages :
    (ValidMetadata /\ Supplied(p) /\ EmptyContent(pages[p].returns)) =>
      /\ pc[p] # "failed"
      /\ out[p] # TypeError
      /\ (pc[p] # "done" =>
            ENABLED (EvalHelmet(p) \/ EvalHeader(p) \/ EvalContainer(p)
                       \/ EvalBody(p)))
      /\ (pc[p] = "done" =>
            HasFrame(out[p]) /\ EmptyContent(ContentRegion(out[p])))

\* An empty article body and an empty non-article page, both composed.
C6_Witness ==
  /\ ValidMetadata
  /\ \E p, q \in Pages :
       /\ pc[p] = "done" /\ pages[p] = Fn(Str(""))
       /\ pc[q] = "done" /\ pages[q] = Fn(Null)

\* C7: no step of any composition, successful or failed, changes the site
\* metadata, the data handed to the layout, or any page's content.
C7_InputsUnchanged ==
  [][siteMetadata' = siteMetadata /\ data' = data /\ pages' = pages]_vars

\* A page composed twice beside a page whose composition failed.
C7_Witness ==
  \E p, q \in Pages :
    /\ pc[p] = "done" /\ renders[p] = MaxRenders
    /\ pc[q] = "failed"

\* C8: pages do not interact: under any interleaving each page's outcome is
\* the outcome of composing that page alone, and a step of one page's
\* composition (a failure included) leaves every other page's elements and
\* outcome as they were.
C8_PagesIndependent ==
  /\ [](\A p \in Pages : Ended(p) => out[p] = Layout(pages[p], data))
  /\ [][\A p \in Pages :
          (pc'[p] = pc[p] /\ renders'[p] = renders[p]) =>
            /\ out'[p] = out[p]
            /\ helmet'[p] = helmet[p]
            /\ header'[p] = header[p]
            /\ container'[p] = container[p]
            /\ calls'[p] = calls[p]]_vars

\* One page failed while another, started before it ended, returned its
\* document.
C8_Witness ==
  /\ ValidMetadata
  /\ \E p, q \in Pages :
       /\ pc[p] = "failed" /\ renders[p] = 1
       /\ pc[q] = "done" /\ HasFrame(out[q])

\* C9: within one composition the title is read before the child-content
\* function is invoked and that function is invoked at most once: with the
\* metadata absent the composition fails without invoking it, with the
\* metadata present a composition that gets as far as its container has
\* invoked the supplied function exactly once.
C9_TitleBeforeChildrenOnce ==
  \A p \in Pages :
    /\ calls[p] <= 1
    /\ (calls[p] > 0 => helmet[p] # Unset)
    /\ (data \in AbsentData => calls[p] = 0)
    /\ (pc[p] \in {"helmet", "header", "container"} => calls[p] = 0)
    /\ (pc[p] \in {"body", "done"} => calls[p] = 1)

\* The child-content function has just been invoked, after the title read.
C9_Witness ==
  \E p \in Pages :
    pc[p] = "body" /\ calls[p] = 1 /\ helmet[p].title = Get(siteMetadata, "title")

\* C10: the document depends on the site metadata through its title only:
\* any metadata record with the same title, whatever its author, composed
\* with the same content gives the same outcome.
C10_OnlyTitleMatters ==
  \A p \in Pages : \A m \in SiteConfigs :
    ( /\ Ended(p)
      /\ siteMetadata # Undefined /\ m # Undefined
      /\ Get(m, "title") = Get(siteMetadata, "title") ) =>
        out[p] = Layout(pages[p], LayoutQuery(m))

\* A metadata that shares the configured title under another author.
C10_Witness ==
  /\ siteMetadata # ConfiguredMetadata
  /\ Get(siteMetadata, "title") = Get(ConfiguredMetadata, "title")
  /\ \E p \in Pages : pc[p] = "done"

====
